---- MODULE Spec2Model ----
(***************************************************************************)
(* Model of pdf-generator-mcp (src/src/pdf.py, src/src/server.py).         *)
(*                                                                         *)
(* Strings are sequences of one-character strings, so that strip, split,   *)
(* startswith and the regular expressions of the source are computed       *)
(* character by character.  The markup tokens "<b>" and "</b>" that        *)
(* re.sub inserts are single elements of such a sequence.                  *)
(***************************************************************************)
EXTENDS Integers, Sequences, FiniteSets, TLC

\* ------------------------------------------------------------------------
\* Bounds
\* ------------------------------------------------------------------------
\* longest markdown (in lines) drawn from CoreLines
MaxLines == 3
\* longest markdown (in lines) drawn from CoreLines \cup EdgeLines
MaxEdgeLines == 2
\* number of tool invocations (render_pdf or render_docx) in the render model
NumCalls == 2

\* ------------------------------------------------------------------------
\* Python string primitives
\* ------------------------------------------------------------------------
NL == "\n"

\* str.strip() with no argument removes whitespace
Whitespace == {" ", NL, "\t"}

Digits == {"0", "1", "2", "3", "4", "5", "6", "7", "8", "9"}

RECURSIVE LStrip(_)
LStrip(s) == IF s # <<>> /\ Head(s) \in Whitespace THEN LStrip(Tail(s)) ELSE s

RECURSIVE RStrip(_)
RStrip(s) ==
    IF s # <<>> /\ s[Len(s)] \in Whitespace
    THEN RStrip(SubSeq(s, 1, Len(s) - 1))
    ELSE s

\* str.strip()
Strip(s) == RStrip(LStrip(s))

\* str.split(sep) for a one-character separator: the fields between
\* consecutive occurrences of sep
Split(s, sep) ==
    LET P == {k \in 1..Len(s) : s[k] = sep}
        \* position of the m-th separator; 0 and Len(s) + 1 bracket the string
        At(m) == IF m = 0 THEN 0
                 ELSE IF m = Cardinality(P) + 1 THEN Len(s) + 1
                 ELSE CHOOSE k \in P : Cardinality({j \in P : j < k}) = m - 1
    IN  [m \in 1..(Cardinality(P) + 1) |-> SubSeq(s, At(m - 1) + 1, At(m) - 1)]

\* "\n".join(ls): how a sequence of lines is written as one markdown string
RECURSIVE Join(_)
Join(ls) ==
    IF ls = <<>> THEN <<>>
    ELSE IF Len(ls) = 1 THEN ls[1]
    ELSE ls[1] \o <<NL>> \o Join(Tail(ls))

\* str.startswith(p)
StartsWith(s, p) == Len(s) >= Len(p) /\ SubSeq(s, 1, Len(p)) = p

\* "**" in line
HasBoldMarker(s) == \E k \in 1..(Len(s) - 1) : s[k] = "*" /\ s[k + 1] = "*"

\* python list slice xs[1:-1]
DropFirstLast(xs) == IF Len(xs) <= 2 THEN <<>> ELSE SubSeq(xs, 2, Len(xs) - 1)

\* ------------------------------------------------------------------------
\* Regular expressions of the source
\* ------------------------------------------------------------------------
\* re.sub(r"\*\*(.+?)\*\*", r"<b>\1</b>", s): leftmost, non-greedy,
\* at least one character between the markers
RECURSIVE SubBold(_)
SubBold(s) ==
    IF Len(s) < 2 THEN s
    ELSE IF /\ s[1] = "*" /\ s[2] = "*"
            /\ \E q \in 4..(Len(s) - 1) : s[q] = "*" /\ s[q + 1] = "*"
         THEN LET q == CHOOSE q \in 4..(Len(s) - 1) :
                          /\ s[q] = "*" /\ s[q + 1] = "*"
                          /\ \A r \in 4..(q - 1) : ~(s[r] = "*" /\ s[r + 1] = "*")
              IN  <<"<b>">> \o SubSeq(s, 3, q - 1) \o <<"</b>">>
                     \o SubBold(SubSeq(s, q + 2, Len(s)))
         ELSE <<s[1]>> \o SubBold(Tail(s))

\* length of the match of r"^\d+\. " at the start of s, 0 when no match
NumPrefixLen(s) ==
    IF \E n \in 1..(Len(s) - 2) :
          /\ \A j \in 1..n : s[j] \in Digits
          /\ s[n + 1] = "." /\ s[n + 2] = " "
    THEN (CHOOSE n \in 1..(Len(s) - 2) :
             /\ \A j \in 1..n : s[j] \in Digits
             /\ s[n + 1] = "." /\ s[n + 2] = " ") + 2
    ELSE 0

\* re.match(r"^\d+\. ", s)
MatchNumbered(s) == NumPrefixLen(s) > 0

\* re.sub(r"^\d+\. ", "", s)
StripNumbered(s) == SubSeq(s, NumPrefixLen(s) + 1, Len(s))

\* re.match(r"^\|[-:\s|]+\|$", s)
IsSeparator(s) ==
    /\ Len(s) >= 3
    /\ s[1] = "|" /\ s[Len(s)] = "|"
    /\ \A j \in 2..(Len(s) - 1) : s[j] \in ({"-", ":", "|"} \cup Whitespace)

\* lines[i].strip().startswith("- ") or lines[i].strip().startswith("* ")
IsBullet(s) == StartsWith(s, <<"-", " ">>) \/ StartsWith(s, <<"*", " ">>)

\* line.startswith("|")
IsTableLine(s) == StartsWith(s, <<"|">>)

IsHeading(s) ==
    \/ StartsWith(s, <<"#", "#", "#", " ">>)
    \/ StartsWith(s, <<"#", "#", " ">>)
    \/ StartsWith(s, <<"#", " ">>)

\* ------------------------------------------------------------------------
\* Flowables (reportlab.platypus objects the parser builds)
\* ------------------------------------------------------------------------
\* Every flowable is a record of one shape.  Two fields are bookkeeping of
\* the model: src, the indices i (0-based, as in the source) of the entries
\* of `lines` whose text the flowable was built from, in the order they were
\* read; span, the cursor i before and after the loop iteration that
\* appended the flowable.

\* Paragraph(text, styles[style])
Paragraph(text, style, src) ==
    [type |-> "Paragraph", style |-> style, text |-> text,
     items |-> <<>>, height |-> 0, src |-> src, span |-> <<0, 0>>]

\* Spacer(1, h)
Spacer(h, src) ==
    [type |-> "Spacer", style |-> "", text |-> <<>>,
     items |-> <<>>, height |-> h, src |-> src, span |-> <<0, 0>>]

\* ListFlowable(items, bulletType=bulletType, leftIndent=20); every item is
\* ListItem(Paragraph(item_text, styles["BulletText"]))
ListFlowable(items, bulletType, src) ==
    [type |-> "ListFlowable", style |-> bulletType, text |-> <<>>,
     items |-> items, height |-> 0, src |-> src, span |-> <<0, 0>>]

\* Table(table_data, repeatRows=1)
Table(table_data, src) ==
    [type |-> "Table", style |-> "", text |-> <<>>,
     items |-> table_data, height |-> 0, src |-> src, span |-> <<0, 0>>]

\* ------------------------------------------------------------------------
\* _parse_markdown_to_flowables
\* ------------------------------------------------------------------------
\* SplitLines without the strip() of the whole content
SplitLinesNoStrip(markdown_content) == Split(markdown_content, NL)

\* lines = markdown_content.strip().split("\n")
SplitLines(markdown_content) == Split(Strip(markdown_content), NL)

\* the if / elif cascade of the outer loop, applied to line = lines[i].strip()
Classify(line) ==
    IF line = <<>> THEN "blank"
    ELSE IF IsHeading(line) THEN "heading"
    ELSE IF HasBoldMarker(line) THEN "bold"
    ELSE IF IsBullet(line) THEN "bullet"
    ELSE IF MatchNumbered(line) THEN "numbered"
    ELSE IF IsTableLine(line) THEN "table"
    ELSE "paragraph"

\* the three heading branches
HeadingFlowable(line, i) ==
    IF StartsWith(line, <<"#", "#", "#", " ">>)
    THEN Paragraph(SubSeq(line, 5, Len(line)), "Heading3", <<i>>)
    ELSE IF StartsWith(line, <<"#", "#", " ">>)
    THEN Paragraph(SubSeq(line, 4, Len(line)), "Heading2", <<i>>)
    ELSE Paragraph(SubSeq(line, 3, Len(line)), "Heading1", <<i>>)

\* inner while loop of the bullet branch
RECURSIVE BulletLoop(_, _, _, _)
BulletLoop(ls, j, items, src) ==
    IF j < Len(ls) /\ IsBullet(Strip(ls[j + 1]))
    THEN LET s == Strip(ls[j + 1])
             item_text == SubBold(SubSeq(s, 3, Len(s)))
         IN  BulletLoop(ls, j + 1, Append(items, item_text), Append(src, j))
    ELSE [i |-> j, items |-> items, src |-> src]

\* inner while loop of the numbered branch
RECURSIVE NumberedLoop(_, _, _, _)
NumberedLoop(ls, j, items, src) ==
    IF j < Len(ls) /\ MatchNumbered(Strip(ls[j + 1]))
    THEN LET item_text == SubBold(StripNumbered(Strip(ls[j + 1])))
         IN  NumberedLoop(ls, j + 1, Append(items, item_text), Append(src, j))
    ELSE [i |-> j, items |-> items, src |-> src]

\* cells = [cell.strip() for cell in row_line.split("|")[1:-1]]
Cells(row_line) ==
    LET fields == DropFirstLast(Split(row_line, "|"))
    IN  [k \in 1..Len(fields) |-> Strip(fields[k])]

\* inner while loop of the table branch
RECURSIVE TableLoop(_, _, _, _)
TableLoop(ls, j, table_data, src) ==
    IF j < Len(ls) /\ IsTableLine(Strip(ls[j + 1]))
    THEN LET row_line == Strip(ls[j + 1])
         IN  IF IsSeparator(row_line)
             THEN TableLoop(ls, j + 1, table_data, src)
             ELSE TableLoop(ls, j + 1, Append(table_data, Cells(row_line)),
                            Append(src, j))
    ELSE [i |-> j, items |-> table_data, src |-> src]

\* BlankBranch with the i += 1 before continue left out
BlankBranchNoAdvance(ls, j) == [i |-> j, out |-> <<Spacer(6, <<j>>)>>]

\* if not line: flowables.append(Spacer(1, 6)); i += 1; continue
BlankBranch(ls, j) == [i |-> j + 1, out |-> <<Spacer(6, <<j>>)>>]

\* the heading branches, then i += 1
HeadingBranch(ls, j) ==
    [i |-> j + 1, out |-> <<HeadingFlowable(Strip(ls[j + 1]), j)>>]

\* elif "**" in line: a BodyText paragraph, then i += 1
BoldBranch(ls, j) ==
    [i |-> j + 1,
     out |-> <<Paragraph(SubBold(Strip(ls[j + 1])), "BodyText", <<j>>)>>]

\* BulletBranch with the continue left out, so that the trailing i += 1 runs
BulletBranchNoContinue(ls, j) ==
    LET r == BulletLoop(ls, j, <<>>, <<>>)
    IN  [i |-> r.i + 1, out |-> <<ListFlowable(r.items, "bullet", r.src)>>]

\* the bullet branch: inner loop, one ListFlowable, continue
BulletBranch(ls, j) ==
    LET r == BulletLoop(ls, j, <<>>, <<>>)
    IN  [i |-> r.i, out |-> <<ListFlowable(r.items, "bullet", r.src)>>]

\* the numbered branch: inner loop, one ListFlowable, continue
NumberedBranch(ls, j) ==
    LET r == NumberedLoop(ls, j, <<>>, <<>>)
    IN  [i |-> r.i, out |-> <<ListFlowable(r.items, "1", r.src)>>]

\* the table branch: inner loop, Spacer / Table / Spacer when table_data is
\* not empty, continue
TableBranch(ls, j) ==
    LET r == TableLoop(ls, j, <<>>, <<>>)
    IN  [i |-> r.i,
         out |-> IF r.items # <<>>
                 THEN <<Spacer(10, <<>>), Table(r.items, r.src), Spacer(10, <<>>)>>
                 ELSE <<>>]

\* else: a BodyText paragraph, then i += 1
ParagraphBranch(ls, j) ==
    [i |-> j + 1,
     out |-> <<Paragraph(SubBold(Strip(ls[j + 1])), "BodyText", <<j>>)>>]

\* records on every flowable of out the cursor before and after its iteration
WithSpan(out, a, b) == [k \in 1..Len(out) |-> [out[k] EXCEPT !.span = <<a, b>>]]

\* one iteration of the outer while loop at cursor j: the new cursor and the
\* flowables appended
ParseStep(ls, j) ==
    LET c == Classify(Strip(ls[j + 1]))
        r == CASE c = "blank"    -> BlankBranch(ls, j)
               [] c = "heading"  -> HeadingBranch(ls, j)
               [] c = "bold"     -> BoldBranch(ls, j)
               [] c = "bullet"   -> BulletBranch(ls, j)
               [] c = "numbered" -> NumberedBranch(ls, j)
               [] c = "table"    -> TableBranch(ls, j)
               [] OTHER          -> ParagraphBranch(ls, j)
    IN  [i |-> r.i, out |-> WithSpan(r.out, j, r.i)]

\* the whole outer loop from cursor j with the flowables built so far
RECURSIVE ParseFrom(_, _, _)
ParseFrom(ls, j, acc) ==
    IF j < Len(ls)
    THEN LET r == ParseStep(ls, j) IN ParseFrom(ls, r.i, acc \o r.out)
    ELSE acc

\* _parse_markdown_to_flowables(markdown_content, styles, accent_color)
ParseMarkdown(markdown_content) == ParseFrom(SplitLines(markdown_content), 0, <<>>)

\* ------------------------------------------------------------------------
\* Markdown inputs
\* ------------------------------------------------------------------------
\* ''
LBlank == <<>>

\* ' '
LSpace == <<" ">>

\* '# a'
LH1 == <<"#", " ", "a">>

\* '### a'
LH3 == <<"#", "#", "#", " ", "a">>

\* '- a'
LBulletDash == <<"-", " ", "a">>

\* '* b'
LBulletStar == <<"*", " ", "b">>

\* '- **a**'
LBulletBold == <<"-", " ", "*", "*", "a", "*", "*">>

\* '1. a'
LNum == <<"1", ".", " ", "a">>

\* '| a | b |'
LRow == <<"|", " ", "a", " ", "|", " ", "b", " ", "|">>

\* '|-|'
LSep == <<"|", "-", "|">>

\* '| a | b'
LRowOpen == <<"|", " ", "a", " ", "|", " ", "b">>

\* '**a**'
LBold == <<"*", "*", "a", "*", "*">>

\* 'a'
LText == <<"a">>

\* '|'
LPipe == <<"|">>

\* '## a'
LH2 == <<"#", "#", " ", "a">>

\* '2. **a**'
LNumBold == <<"2", ".", " ", "*", "*", "a", "*", "*">>

\* '| **a** |'
LRowBold == <<"|", " ", "*", "*", "a", "*", "*", " ", "|">>

\* ' - a'
LIndented == <<" ", "-", " ", "a">>

\* '**a'
LUnpaired == <<"*", "*", "a">>

\* '-'
LDash == <<"-">>

\* '#a'
LHashNoSpace == <<"#", "a">>

\* '| |'
LSepBlankCell == <<"|", " ", "|">>

\* '||'
LTwoPipes == <<"|", "|">>

\* '10. b'
LNumLong == <<"1", "0", ".", " ", "b">>

\* '- o'
LOne == <<"-", " ", "o">>

\* '- t'
LTwo == <<"-", " ", "t">>

\* '- h'
LThree == <<"-", " ", "h">>

\* '| P | D |'
LHead == <<"|", " ", "P", " ", "|", " ", "D", " ", "|">>

\* '|---|---|'
LSepLong == <<"|", "-", "-", "-", "|", "-", "-", "-", "|">>

\* '| V | 2 w |'
LData == <<"|", " ", "V", " ", "|", " ", "2", " ", "w", " ", "|">>

\* '- **b** i'
LBoldItem == <<"-", " ", "*", "*", "b", "*", "*", " ", "i">>

CoreLines ==
    {LBlank, LSpace,
     LH1, LH3, LBulletDash, LBulletStar, LBulletBold, LNum, LRow,
     LSep, LRowOpen, LBold, LText, LPipe}

EdgeLines ==
    {LH2, LNumBold, LRowBold, LIndented,
     LUnpaired, LDash, LHashNoSpace, LSepBlankCell, LTwoPipes, LNumLong}

\* the documents of the specification's examples (spec.md section 8 and 4.1)
ListGroupingDoc == <<LOne, LTwo, LBlank, LThree>>

TableDoc == <<LHead, LSepLong, LData>>

BoldItemDoc == <<LBoldItem, LOne, LBlank, LBlank, LText>>

PaddedDoc == <<LBlank, LSpace, LText, LBlank, LRowOpen, LBlank>>

ExampleDocs == {ListGroupingDoc, TableDoc, BoldItemDoc, PaddedDoc}

SeqsUpTo(S, n) == UNION {[1..k -> S] : k \in 0..n}

\* the line sequences a markdown input is written from
Docs ==
    SeqsUpTo(CoreLines, MaxLines)
        \cup SeqsUpTo(CoreLines \cup EdgeLines, MaxEdgeLines)
        \cup ExampleDocs

Inputs == {Join(d) : d \in Docs}

\* ------------------------------------------------------------------------
\* render_docx: the markdown loop
\* ------------------------------------------------------------------------
\* doc.add_heading(text, level=level)
AddHeading(text, level, src) ==
    [call |-> "add_heading", level |-> level, style |-> "", text |-> text,
     src |-> src]

\* doc.add_paragraph(text, style=style); style "" when none is passed
AddParagraph(text, style, src) ==
    [call |-> "add_paragraph", level |-> 0, style |-> style, text |-> text,
     src |-> src]

\* lines = markdown.split("\n")
DocxSplitLines(markdown_content) == Split(markdown_content, NL)

\* DocxClassify that skips the lines of a table as it skips blank lines
DocxClassifyDropsTables(line) ==
    IF line = <<>> \/ IsTableLine(line) THEN "blank"
    ELSE IF IsHeading(line) THEN "heading"
    ELSE IF IsBullet(line) THEN "bullet"
    ELSE IF MatchNumbered(line) THEN "numbered"
    ELSE "paragraph"

\* DocxClassify with the numbered-list branch left out
DocxClassifyNoNumbered(line) ==
    IF line = <<>> THEN "blank"
    ELSE IF IsHeading(line) THEN "heading"
    ELSE IF IsBullet(line) THEN "bullet"
    ELSE "paragraph"

\* the if / elif cascade of render_docx's loop
DocxClassify(line) ==
    IF line = <<>> THEN "blank"
    ELSE IF IsHeading(line) THEN "heading"
    ELSE IF IsBullet(line) THEN "bullet"
    ELSE IF MatchNumbered(line) THEN "numbered"
    ELSE "paragraph"

\* the three heading branches
DocxHeading(line, i) ==
    IF StartsWith(line, <<"#", "#", "#", " ">>)
    THEN AddHeading(SubSeq(line, 5, Len(line)), 3, <<i>>)
    ELSE IF StartsWith(line, <<"#", "#", " ">>)
    THEN AddHeading(SubSeq(line, 4, Len(line)), 2, <<i>>)
    ELSE AddHeading(SubSeq(line, 3, Len(line)), 1, <<i>>)

\* one iteration of render_docx's loop at cursor j: the calls made on doc
DocxStep(ls, j) ==
    LET line == Strip(ls[j + 1])
        c    == DocxClassify(line)
    IN  CASE c = "blank"    -> <<>>
          [] c = "heading"  -> <<DocxHeading(line, j)>>
          [] c = "bullet"   ->
               <<AddParagraph(SubSeq(line, 3, Len(line)), "List Bullet", <<j>>)>>
          [] c = "numbered" ->
               <<AddParagraph(StripNumbered(line), "List Number", <<j>>)>>
          [] OTHER          -> <<AddParagraph(line, "", <<j>>)>>

\* the whole loop from cursor j
RECURSIVE DocxFrom(_, _, _)
DocxFrom(ls, j, acc) ==
    IF j < Len(ls) THEN DocxFrom(ls, j + 1, acc \o DocxStep(ls, j)) ELSE acc

\* the body calls render_docx makes for a markdown string
DocxBody(markdown_content) == DocxFrom(DocxSplitLines(markdown_content), 0, <<>>)

\* ------------------------------------------------------------------------
\* get_styles, _generate_id and the two tools
\* ------------------------------------------------------------------------
\* the colours get_styles resolves for a style name
get_styles(style_name) ==
    IF style_name = "modern"
    THEN [title_color |-> "#111827", heading_color |-> "#374151",
          text_color |-> "#1f2937", accent_color |-> "#3b82f6"]
    ELSE IF style_name = "minimal"
    THEN [title_color |-> "black", heading_color |-> "black",
          text_color |-> "#222222", accent_color |-> "#666666"]
    ELSE [title_color |-> "#1a1a1a", heading_color |-> "#1a1a1a",
          text_color |-> "#333333", accent_color |-> "#3b82f6"]

\* the validation with the fallback style mistaken
ValidateStyleFallsBackToModern(style) ==
    IF style \notin {"default", "modern", "minimal"} THEN "modern" ELSE style

\* if style not in ["default", "modern", "minimal"]: style = "default"
ValidateStyle(style) ==
    IF style \notin {"default", "modern", "minimal"} THEN "default" ELSE style

\* the values _generate_id can return: a random token and a hash of the
\* content and the time, so any identifier may come out of any call
Ids == {"id1", "id2"}

\* a file name that leaves the identifier out: every file of one extension
\* gets the name _slugify gives an empty title
FileNameFromSlug(id, ext) == [id |-> "document", ext |-> ext]

\* filename = f"{pdf_id}.pdf" / f"{docx_id}.docx"
FileName(id, ext) == [id |-> id, ext |-> ext]

\* the arguments the tools are called with
Titles == {<<"T">>}

RenderDocs == {<<LH1, LBoldItem, LOne, LBlank, LRow>>}

RenderInputs == {Join(d) : d \in RenderDocs}

StyleArgs == {"default", "modern", "minimal", "bogus-theme"}

\* what doc.build(flowables) writes for render_pdf: the title paragraph, a
\* spacer and the parsed content, laid out with the colours of the style
PdfContent(title, theme, content_flowables) ==
    [kind |-> "pdf", theme |-> theme,
     body |-> <<Paragraph(title, "Title", <<>>), Spacer(12, <<>>)>>
                  \o content_flowables]

\* what doc.save(filepath) writes for render_docx: the title heading
\* (level 0) and the calls of the markdown loop
DocxContent(title, body) ==
    [kind |-> "docx", theme |-> "",
     body |-> <<AddHeading(title, 0, <<>>)>> \o body]

\* filepath.stat().st_size of a file with this content
SizeOf(content) == Len(content.body)

\* ------------------------------------------------------------------------
\* State
\* ------------------------------------------------------------------------
VARIABLES
    markdown,     \* the markdown argument
    pc,           \* position: "start", "loop", "docx_loop", "done"
    lines,        \* _parse_markdown_to_flowables: lines
    i,            \* _parse_markdown_to_flowables: i
    flowables,    \* _parse_markdown_to_flowables: flowables
    docx_lines,   \* render_docx: lines
    docx_i,       \* render_docx: i
    doc,          \* render_docx: the calls made on doc after the title
    files,        \* FILES_DIR: file name -> content
    written_by,   \* history: file name -> the invocation that last wrote it
    call          \* the tool invocations: arguments, locals, position, result

vars == <<markdown, pc, lines, i, flowables, docx_lines, docx_i, doc, files, written_by, call>>

renderVars == <<files, written_by, call>>

parseVars == <<markdown, pc, lines, i, flowables, docx_lines, docx_i, doc>>

Calls == 1..NumCalls

\* an invocation that has not been made yet
IdleCall ==
    [pc |-> "idle", tool |-> "", title |-> <<>>, markdown |-> <<>>,
     style_arg |-> "", style |-> "", id |-> "", ext |-> "",
     content |-> [kind |-> "", theme |-> "", body |-> <<>>],
     size_bytes |-> 0, uploaded |-> [kind |-> "", theme |-> "", body |-> <<>>],
     listed_before |-> {},
     success |-> FALSE, error |-> ""]

pdfVars == <<lines, i, flowables>>

docxVars == <<docx_lines, docx_i, doc>>

Init ==
    /\ markdown = <<>>
    /\ pc = "start"
    /\ lines = <<>>
    /\ i = 0
    /\ flowables = <<>>
    /\ docx_lines = <<>>
    /\ docx_i = 0
    /\ doc = <<>>
    /\ files = <<>>
    /\ written_by = <<>>
    /\ call = [c \in Calls |-> IdleCall]

\* the parser is called with a markdown string:
\* flowables = []; lines = markdown_content.strip().split("\n"); i = 0
ParseBegin ==
    /\ pc = "start"
    /\ \E markdown_content \in Inputs :
          /\ markdown' = markdown_content
          /\ lines' = SplitLines(markdown_content)
    /\ i' = 0
    /\ flowables' = <<>>
    /\ pc' = "loop"
    /\ UNCHANGED <<docxVars, renderVars>>

\* one iteration of the outer loop that takes branch c
ParseIteration(c) ==
    /\ pc = "loop"
    /\ i < Len(lines)
    /\ Classify(Strip(lines[i + 1])) = c
    /\ \E r \in {ParseStep(lines, i)} :
          /\ i' = r.i
          /\ flowables' = flowables \o r.out
    /\ UNCHANGED <<markdown, pc, lines, docxVars, renderVars>>

ParseBlank == ParseIteration("blank")

ParseHeading == ParseIteration("heading")

ParseBold == ParseIteration("bold")

ParseBullet == ParseIteration("bullet")

ParseNumbered == ParseIteration("numbered")

ParseTable == ParseIteration("table")

ParseParagraph == ParseIteration("paragraph")

\* the loop ends and flowables is returned; render_docx is then run on the
\* same markdown: lines = markdown.split("\n"); i = 0
ParseReturn ==
    /\ pc = "loop"
    /\ ~(i < Len(lines))
    /\ pc' = "docx_loop"
    /\ docx_lines' = DocxSplitLines(markdown)
    /\ docx_i' = 0
    /\ doc' = <<>>
    /\ UNCHANGED <<markdown, pdfVars, renderVars>>

\* one iteration of render_docx's loop that takes branch c
DocxIteration(c) ==
    /\ pc = "docx_loop"
    /\ docx_i < Len(docx_lines)
    /\ DocxClassify(Strip(docx_lines[docx_i + 1])) = c
    /\ doc' = doc \o DocxStep(docx_lines, docx_i)
    /\ docx_i' = docx_i + 1
    /\ UNCHANGED <<markdown, pc, docx_lines, pdfVars, renderVars>>

DocxBlank == DocxIteration("blank")

DocxHeadingLine == DocxIteration("heading")

DocxBullet == DocxIteration("bullet")

DocxNumbered == DocxIteration("numbered")

DocxParagraph == DocxIteration("paragraph")

\* render_docx's loop ends
DocxEnd ==
    /\ pc = "docx_loop"
    /\ ~(docx_i < Len(docx_lines))
    /\ pc' = "done"
    /\ UNCHANGED <<markdown, pdfVars, docxVars, renderVars>>

Next ==
    \/ ParseBegin
    \/ ParseBlank
    \/ ParseHeading
    \/ ParseBold
    \/ ParseBullet
    \/ ParseNumbered
    \/ ParseTable
    \/ ParseParagraph
    \/ ParseReturn
    \/ DocxBlank
    \/ DocxHeadingLine
    \/ DocxBullet
    \/ DocxNumbered
    \/ DocxParagraph
    \/ DocxEnd

Spec == Init /\ [][Next]_vars

TypeOK ==
    /\ pc \in {"start", "loop", "docx_loop", "done"}
    /\ i \in 0..Len(lines)
    /\ docx_i \in 0..Len(docx_lines)

\* ------------------------------------------------------------------------
\* render_pdf, render_docx and the file server
\* ------------------------------------------------------------------------
\* the file at filepath is created or overwritten with content
WriteFile(fs, name, content) ==
    [n \in (DOMAIN fs) \cup {name} |-> IF n = name THEN content ELSE fs[n]]

\* server.list_files: the names of the .pdf and .docx files of FILES_DIR
list_files == {n \in DOMAIN files : n.ext \in {"pdf", "docx"}}

\* server.serve_file: the file is served when it exists, 404 otherwise
serve_file(filename) == IF filename \in DOMAIN files THEN 200 ELSE 404

\* the locals of render_pdf once the flowables are built.  listed_before is
\* a history field of the model: what list_files showed when the call began.
PdfLocals(title, md, style_arg, id) ==
    LET style == ValidateStyle(style_arg)
        theme == get_styles(style)
        content == PdfContent(title, theme, ParseMarkdown(md))
    IN  [IdleCall EXCEPT
            !.tool = "render_pdf", !.title = title, !.markdown = md,
            !.style_arg = style_arg, !.style = style, !.id = id, !.ext = "pdf",
            !.content = content, !.listed_before = list_files]

\* render_pdf up to the await of client.post: the style is validated, the id
\* drawn, the flowables built, the PDF written to filepath and its size read
RenderPdfBuild ==
    \E c \in Calls, title \in Titles, md \in RenderInputs,
       style_arg \in StyleArgs, id \in Ids :
        /\ call[c].pc = "idle"
        /\ LET loc == PdfLocals(title, md, style_arg, id)
           IN  /\ files' = WriteFile(files, FileName(id, "pdf"), loc.content)
               /\ written_by' = WriteFile(written_by, FileName(id, "pdf"), c)
               /\ call' = [call EXCEPT ![c] =
                              [loc EXCEPT !.pc = "uploading",
                                          !.size_bytes = SizeOf(loc.content)]]
        /\ UNCHANGED parseVars

\* render_pdf when building the flowables or doc.build raises: nothing has
\* been written and the except clause returns success=False
RenderPdfBuildFails ==
    \E c \in Calls, title \in Titles, md \in RenderInputs,
       style_arg \in StyleArgs, id \in Ids :
        /\ call[c].pc = "idle"
        /\ call' = [call EXCEPT ![c] =
                       [PdfLocals(title, md, style_arg, id) EXCEPT
                           !.pc = "returned", !.success = FALSE,
                           !.error = "PDF generation failed"]]
        /\ UNCHANGED <<files, written_by, parseVars>>

\* the upload answers and render_pdf returns success=True
PdfUploadOk ==
    \E c \in Calls :
        /\ call[c].pc = "uploading" /\ call[c].tool = "render_pdf"
        /\ call' = [call EXCEPT ![c].pc = "returned", ![c].success = TRUE,
                                ![c].uploaded = files[FileName(call[c].id, "pdf")]]
        /\ UNCHANGED <<files, written_by, parseVars>>

\* the upload raises (connection, timeout, HTTP status, shape of the answer)
\* and the except clause returns success=False
PdfUploadFails ==
    \E c \in Calls :
        /\ call[c].pc = "uploading" /\ call[c].tool = "render_pdf"
        /\ call' = [call EXCEPT ![c].pc = "returned", ![c].success = FALSE,
                                ![c].error = "PDF generation failed"]
        /\ UNCHANGED <<files, written_by, parseVars>>

\* the locals of render_docx once the document is built
DocxLocals(title, md, id) ==
    [IdleCall EXCEPT
        !.tool = "render_docx", !.title = title, !.markdown = md,
        !.id = id, !.ext = "docx",
        !.content = DocxContent(title, DocxBody(md)),
        !.listed_before = list_files]

\* render_docx when python-docx cannot be imported
RenderDocxImportFails ==
    \E c \in Calls, title \in Titles, md \in RenderInputs :
        /\ call[c].pc = "idle"
        /\ call' = [call EXCEPT ![c] =
                       [IdleCall EXCEPT
                           !.tool = "render_docx", !.title = title,
                           !.markdown = md, !.listed_before = list_files,
                           !.pc = "returned", !.success = FALSE,
                           !.error = "python-docx not installed"]]
        /\ UNCHANGED <<files, written_by, parseVars>>

\* render_docx up to the await of client.post: the id is drawn, the
\* document built and saved to filepath and its size read
RenderDocxSave ==
    \E c \in Calls, title \in Titles, md \in RenderInputs, id \in Ids :
        /\ call[c].pc = "idle"
        /\ LET loc == DocxLocals(title, md, id)
           IN  /\ files' = WriteFile(files, FileName(id, "docx"), loc.content)
               /\ written_by' = WriteFile(written_by, FileName(id, "docx"), c)
               /\ call' = [call EXCEPT ![c] =
                              [loc EXCEPT !.pc = "uploading",
                                          !.size_bytes = SizeOf(loc.content)]]
        /\ UNCHANGED parseVars

\* render_docx when building the document or doc.save raises
RenderDocxSaveFails ==
    \E c \in Calls, title \in Titles, md \in RenderInputs, id \in Ids :
        /\ call[c].pc = "idle"
        /\ call' = [call EXCEPT ![c] =
                       [DocxLocals(title, md, id) EXCEPT
                           !.pc = "returned", !.success = FALSE,
                           !.error = "DOCX generation failed"]]
        /\ UNCHANGED <<files, written_by, parseVars>>

\* the upload answers and render_docx returns success=True
DocxUploadOk ==
    \E c \in Calls :
        /\ call[c].pc = "uploading" /\ call[c].tool = "render_docx"
        /\ call' = [call EXCEPT ![c].pc = "returned", ![c].success = TRUE,
                                ![c].uploaded = files[FileName(call[c].id, "docx")]]
        /\ UNCHANGED <<files, written_by, parseVars>>

\* the upload raises and the except clause returns success=False
DocxUploadFails ==
    \E c \in Calls :
        /\ call[c].pc = "uploading" /\ call[c].tool = "render_docx"
        /\ call' = [call EXCEPT ![c].pc = "returned", ![c].success = FALSE,
                                ![c].error = "DOCX generation failed"]
        /\ UNCHANGED <<files, written_by, parseVars>>

RenderNext ==
    \/ RenderPdfBuild
    \/ RenderPdfBuildFails
    \/ PdfUploadOk
    \/ PdfUploadFails
    \/ RenderDocxImportFails
    \/ RenderDocxSave
    \/ RenderDocxSaveFails
    \/ DocxUploadOk
    \/ DocxUploadFails

RenderSpec == Init /\ [][RenderNext]_vars

\* ---- C8 ----------------------------------------------------------------
\* C8: theme fallback.  A render_pdf call with a style outside default,
\* modern, minimal is carried out with style "default": it resolves the
\* colours, builds the flowables and writes the content that a call with
\* style "default" and the same title and markdown does.
ThemeFallback ==
    \A c, d \in Calls :
        /\ call[c].tool = "render_pdf" /\ call[d].tool = "render_pdf"
        /\ call[c].style_arg \notin {"default", "modern", "minimal"}
        /\ call[d].style_arg = "default"
        /\ call[c].title = call[d].title
        /\ call[c].markdown = call[d].markdown
        => /\ call[c].style = "default"
           /\ call[c].content.theme = call[d].content.theme
           /\ call[c].content = call[d].content

\* a call with style "bogus-theme" and a call with style "default" on the
\* same title and markdown have both returned success
ThemeFallbackWitness ==
    \E c, d \in Calls :
        /\ call[c].tool = "render_pdf" /\ call[d].tool = "render_pdf"
        /\ call[c].style_arg = "bogus-theme" /\ call[d].style_arg = "default"
        /\ call[c].title = call[d].title
        /\ call[c].markdown = call[d].markdown
        /\ call[c].pc = "returned" /\ call[c].success
        /\ call[d].pc = "returned" /\ call[d].success

\* ---- C10 ---------------------------------------------------------------
\* C10, as claimed: a call that returns success=False leaves no generated
\* file behind: the file it named is not among the files list_files shows,
\* unless list_files showed it before the call began.
NoFileLeftOnFailure ==
    \A c \in Calls :
        (call[c].pc = "returned" /\ ~call[c].success /\ call[c].id # "") =>
            LET filename == FileName(call[c].id, call[c].ext)
            IN  filename \in list_files => filename \in call[c].listed_before

\* ---- C11 ---------------------------------------------------------------
\* the content an invocation writes when it runs alone on its own title,
\* markdown and style
RunAlone(c) ==
    IF call[c].tool = "render_pdf"
    THEN PdfLocals(call[c].title, call[c].markdown, call[c].style_arg,
                   call[c].id).content
    ELSE DocxLocals(call[c].title, call[c].markdown, call[c].id).content

\* the invocation has written its file and has not failed since
HasWritten(c) ==
    \/ call[c].pc = "uploading"
    \/ call[c].pc = "returned" /\ call[c].success

\* the file of invocation c is its own: no other invocation wrote it last,
\* it holds what c alone writes, the size c read is the size of that, and
\* what c uploaded is that
OwnFileAndResult(c) ==
    LET filename == FileName(call[c].id, call[c].ext)
        alone == RunAlone(c)
    IN  /\ filename \in DOMAIN files
        /\ written_by[filename] = c
        /\ files[filename] = alone
        /\ call[c].size_bytes = SizeOf(alone)
        /\ call[c].pc = "returned" => call[c].uploaded = alone

\* no other invocation has drawn the identifier of c for the same extension
DrewOwnName(c) ==
    \A d \in Calls \ {c} :
        call[d].id # call[c].id \/ call[d].ext # call[c].ext

Returned == pc \in {"docx_loop", "done"}

\* the markdown argument as lines, before any stripping
RawLines == Split(markdown, NL)

IsBlankLine(l) == Strip(l) = <<>>

\* the non-blank lines of ls, each stripped, in order
RECURSIVE NonBlank(_)
NonBlank(ls) ==
    IF ls = <<>> THEN <<>>
    ELSE (IF IsBlankLine(Head(ls)) THEN <<>> ELSE <<Strip(Head(ls))>>)
             \o NonBlank(Tail(ls))

\* the line indices consumed by the headings, paragraphs, list items and
\* table rows of fs, in output order
RECURSIVE ConsumedBy(_)
ConsumedBy(fs) ==
    IF fs = <<>> THEN <<>>
    ELSE (IF Head(fs).type # "Spacer" THEN Head(fs).src ELSE <<>>)
             \o ConsumedBy(Tail(fs))

Count(sq, x) == Cardinality({k \in 1..Len(sq) : sq[k] = x})

\* a heading or paragraph is built from one line, a list has one item per
\* line and a table one row per line
OneUnitPerLine(f) ==
    /\ f.type = "Paragraph" => Len(f.src) = 1
    /\ f.type \in {"ListFlowable", "Table"} => Len(f.items) = Len(f.src)

\* C1: block coverage.  No non-blank line of the input is lost when the
\* content is split into lines, and every non-blank line the cursor has
\* passed is consumed by exactly one heading, paragraph, list item or table
\* row, except the table separator lines, which are consumed by none; lines
\* are consumed in input order.
BlockCoverage ==
    pc # "start" =>
        /\ NonBlank(RawLines) = NonBlank(lines)
        /\ \A k \in 0..(Len(lines) - 1) :
              LET l == Strip(lines[k + 1])
              IN  l # <<>> =>
                    Count(ConsumedBy(flowables), k) =
                        IF k < i /\ ~IsSeparator(l) THEN 1 ELSE 0
        /\ \A m \in 1..Len(flowables) : OneUnitPerLine(flowables[m])
        /\ LET c == ConsumedBy(flowables)
           IN  \A a, b \in 1..Len(c) : a < b => c[a] < c[b]

\* the table example of the specification has been parsed: the two rows are
\* consumed and the separator line is not
BlockCoverageWitness ==
    /\ pc = "done"
    /\ markdown = Join(TableDoc)
    /\ Len(flowables) = 3
    /\ flowables[2].type = "Table"
    /\ flowables[2].src = <<0, 2>>

\* ---- C7 ----------------------------------------------------------------
\* the Spacer(1, 6) flowables, which only a blank line produces
BlankSpacers == {m \in 1..Len(flowables) :
                    flowables[m].type = "Spacer" /\ flowables[m].height = 6}

BlankCount(ls) == Cardinality({k \in 1..Len(ls) : IsBlankLine(ls[k])})

\* the blank lines of ls that have a non-blank line before and after them
InteriorBlankCount(ls) ==
    Cardinality({k \in 1..Len(ls) :
                    /\ IsBlankLine(ls[k])
                    /\ \E a \in 1..(k - 1) : ~IsBlankLine(ls[a])
                    /\ \E b \in (k + 1)..Len(ls) : ~IsBlankLine(ls[b])})

\* no list or table was built across line k, and line k made one Spacer(1, 6)
\* in its own iteration
BlankTerminates(k) ==
    /\ \A m \in 1..Len(flowables) :
          flowables[m].type \in {"ListFlowable", "Table"} =>
              ~(flowables[m].span[1] <= k /\ k < flowables[m].span[2])
    /\ Cardinality({m \in BlankSpacers :
                       flowables[m].src = <<k>> /\ flowables[m].span = <<k, k + 1>>}) = 1

\* C7, as claimed: every blank line of the input becomes one Spacer, so the
\* number of Spacer(1, 6) flowables returned is the number of blank input
\* lines.
SpacerPerBlankInputLine ==
    Returned => Cardinality(BlankSpacers) = BlankCount(RawLines)

\* C7, amended: every blank line of the stripped content ends the list or
\* table before it and becomes exactly one Spacer(1, 6) at its position; the
\* number of Spacer(1, 6) flowables returned is the number of blank input
\* lines that lie between the first and the last non-blank line, and one
\* when the input has no non-blank line.
SpacerPerInteriorBlankLine ==
    Returned =>
        /\ \A k \in 0..(Len(lines) - 1) :
              IsBlankLine(lines[k + 1]) => BlankTerminates(k)
        /\ Cardinality(BlankSpacers) =
              IF \A k \in 1..Len(RawLines) : IsBlankLine(RawLines[k])
              THEN 1
              ELSE InteriorBlankCount(RawLines)

\* the list grouping example of the specification has been parsed: two
\* bullet lists with one Spacer between them
ListGroupingWitness ==
    /\ pc = "done"
    /\ markdown = Join(ListGroupingDoc)
    /\ Len(flowables) = 3
    /\ flowables[1].type = "ListFlowable" /\ flowables[1].items = <<<<"o">>, <<"t">>>>
    /\ flowables[2].type = "Spacer" /\ flowables[2].height = 6
    /\ flowables[3].type = "ListFlowable" /\ flowables[3].items = <<<<"h">>>>

Consumers(k) == {m \in 1..Len(flowables) :
                    /\ flowables[m].type # "Spacer"
                    /\ \E n \in 1..Len(flowables[m].src) : flowables[m].src[n] = k}

\* C3, as claimed: a line that starts with a bullet marker and contains "**"
\* is consumed by a bullet list, as the item made of the line without its
\* marker, inline-formatted, and not by a paragraph.
BoldBulletIsListItem ==
    Returned =>
        \A k \in 0..(Len(lines) - 1) :
            LET l == Strip(lines[k + 1])
            IN  IsBullet(l) /\ HasBoldMarker(l) =>
                  \A m \in Consumers(k) :
                      /\ flowables[m].type = "ListFlowable"
                      /\ flowables[m].style = "bullet"
                      /\ \E n \in 1..Len(flowables[m].src) :
                            /\ flowables[m].src[n] = k
                            /\ flowables[m].items[n] = SubBold(SubSeq(l, 3, Len(l)))

\* ---- C4 ----------------------------------------------------------------
\* the continuation predicate of the inner loop that built flowable f
Continues(f, l) ==
    IF f.type = "Table" THEN IsTableLine(l)
    ELSE IF f.style = "bullet" THEN IsBullet(l)
    ELSE MatchNumbered(l)

\* C4, as claimed: every list and table is maximal.  The lines it spans all
\* match its continuation predicate, and neither the line directly before
\* its first line nor the line directly after its last line does.
GreedyGrouping ==
    Returned =>
        \A m \in 1..Len(flowables) :
            LET f == flowables[m]
            IN  f.type \in {"ListFlowable", "Table"} =>
                  /\ \A k \in f.span[1]..(f.span[2] - 1) :
                        Continues(f, Strip(lines[k + 1]))
                  /\ f.span[1] > 0 => ~Continues(f, Strip(lines[f.span[1]]))
                  /\ f.span[2] < Len(lines) =>
                        ~Continues(f, Strip(lines[f.span[2] + 1]))

\* ---- C6 ----------------------------------------------------------------
\* the '|'-separated fields of a row, trimmed, without the empty first and
\* last fields that a leading and a trailing pipe produce
TrimmedFields(row_line) ==
    LET fields == Split(row_line, "|")
        first  == IF Strip(fields[1]) = <<>> THEN 2 ELSE 1
        last   == IF Strip(fields[Len(fields)]) = <<>>
                  THEN Len(fields) - 1 ELSE Len(fields)
        kept   == SubSeq(fields, first, last)
    IN  [k \in 1..Len(kept) |-> Strip(kept[k])]

\* C6, as claimed: the rows of a table are, in input order, the
\* non-separator lines of its run, separator lines contribute no row, and
\* the cells of a row are the trimmed fields of its line, no non-empty field
\* lost.
TableRowsKeepAllCells ==
    Returned =>
        \A m \in 1..Len(flowables) :
            LET f == flowables[m]
            IN  f.type = "Table" =>
                  /\ Len(f.items) = Len(f.src)
                  /\ \A k \in f.span[1]..(f.span[2] - 1) :
                        Count(f.src, k) =
                            IF IsSeparator(Strip(lines[k + 1])) THEN 0 ELSE 1
                  /\ \A a, b \in 1..Len(f.src) : a < b => f.src[a] < f.src[b]
                  /\ \A n \in 1..Len(f.src) :
                        f.items[n] = TrimmedFields(Strip(lines[f.src[n] + 1]))

\* ------------------------------------------------------------------------
\* Properties of render_docx's loop
\* ------------------------------------------------------------------------
\* the line indices the calls of cs were made for, in call order
RECURSIVE CalledFor(_)
CalledFor(cs) == IF cs = <<>> THEN <<>> ELSE Head(cs).src \o CalledFor(Tail(cs))

\* C5, as claimed: the lines of a table and the blank lines produce no call
\* on doc, and every other line produces exactly one.
DocxDropsTables ==
    pc = "done" =>
        \A k \in 0..(Len(docx_lines) - 1) :
            LET l == Strip(docx_lines[k + 1])
            IN  Count(CalledFor(doc), k) =
                    IF l = <<>> \/ IsTableLine(l) THEN 0 ELSE 1

\* C5, amended: only the blank lines produce no call on doc.  Every
\* non-blank line the loop has passed produces exactly one add_heading or
\* add_paragraph call, in input order; a line that starts with '|', a table
\* separator included, produces a plain add_paragraph of the whole line.
DocxOneCallPerLine ==
    pc \in {"docx_loop", "done"} =>
        /\ \A k \in 0..(Len(docx_lines) - 1) :
              LET l == Strip(docx_lines[k + 1])
              IN  Count(CalledFor(doc), k) =
                      IF l # <<>> /\ k < docx_i THEN 1 ELSE 0
        /\ \A n \in 1..Len(doc) :
              LET l == Strip(docx_lines[doc[n].src[1] + 1])
              IN  /\ Len(doc[n].src) = 1
                  /\ IsTableLine(l) =>
                        /\ doc[n].call = "add_paragraph"
                        /\ doc[n].style = ""
                        /\ doc[n].text = l
        /\ LET c == CalledFor(doc)
           IN  \A a, b \in 1..Len(c) : a < b => c[a] < c[b]

\* the table example of the specification has gone through render_docx's
\* loop: three paragraphs, the separator line among them
DocxTableWitness ==
    /\ pc = "done"
    /\ markdown = Join(TableDoc)
    /\ Len(doc) = 3
    /\ doc[2].call = "add_paragraph" /\ doc[2].text = LSepLong

\* ---- C2 ----------------------------------------------------------------
\* the indices (0-based) of the non-blank lines of ls from index k on
RECURSIVE NonBlankFrom(_, _)
NonBlankFrom(ls, k) ==
    IF k >= Len(ls) THEN <<>>
    ELSE (IF IsBlankLine(ls[k + 1]) THEN <<>> ELSE <<k>>) \o NonBlankFrom(ls, k + 1)

\* the kind of block the parser made of line k: a heading style,
\* "paragraph", "bullet", "numbered", "table", or "none" for a line no
\* block consumed
PdfKindOf(k) ==
    IF Consumers(k) = {} THEN "none"
    ELSE LET f == flowables[CHOOSE m \in Consumers(k) : TRUE]
         IN  IF f.type = "Table" THEN "table"
             ELSE IF f.type = "ListFlowable"
                  THEN (IF f.style = "bullet" THEN "bullet" ELSE "numbered")
             ELSE IF f.style = "BodyText" THEN "paragraph"
             ELSE f.style

\* the kind of a call on doc, in the same vocabulary
DocxKindOf(c) ==
    IF c.call = "add_heading"
    THEN (CASE c.level = 1 -> "Heading1" [] c.level = 2 -> "Heading2"
            [] OTHER -> "Heading3")
    ELSE IF c.style = "List Bullet" THEN "bullet"
    ELSE IF c.style = "List Number" THEN "numbered"
    ELSE "paragraph"

\* per non-blank line, in input order: the line, and its kind on either path
PdfLineIdx == NonBlankFrom(lines, 0)

PdfKinds == [n \in 1..Len(PdfLineIdx) |-> PdfKindOf(PdfLineIdx[n])]

DocxKinds == [n \in 1..Len(doc) |-> DocxKindOf(doc[n])]

\* C2, as claimed: render_docx renders from the block kinds the parser of
\* render_pdf produces; the two paths classify every line the same way.
SameClassification == pc = "done" => DocxKinds = PdfKinds

\* a list line that contains "**"
BoldListLine(l) == HasBoldMarker(l) /\ (IsBullet(l) \/ MatchNumbered(l))

\* C2, amended: render_docx parses the markdown itself.  The two paths see
\* the same non-blank lines and classify a line the same way unless it
\* starts with '|' or is a list line containing "**": a '|' line without
\* "**" is a table row or a dropped separator for the parser and a plain
\* paragraph for render_docx; a list line with "**" is a list item for
\* render_docx and a list item or a paragraph for the parser.
ClassificationAgreesExceptTablesAndBoldLists ==
    pc = "done" =>
        /\ Len(DocxKinds) = Len(PdfKinds)
        /\ \A n \in 1..Len(PdfKinds) :
              LET l == Strip(lines[PdfLineIdx[n] + 1])
              IN  /\ l = Strip(docx_lines[doc[n].src[1] + 1])
                  /\ ~IsTableLine(l) /\ ~BoldListLine(l) =>
                        DocxKinds[n] = PdfKinds[n]
                  /\ IsTableLine(l) /\ ~HasBoldMarker(l) =>
                        /\ PdfKinds[n] \in {"table", "none"}
                        /\ DocxKinds[n] = "paragraph"
                  /\ BoldListLine(l) =>
                        /\ DocxKinds[n] = (IF IsBullet(l) THEN "bullet" ELSE "numbered")
                        /\ PdfKinds[n] \in {"paragraph", DocxKinds[n]}

\* a document with a bold list line, a plain list line and text has gone
\* through both paths: they differ on the first line and agree on the rest
ClassificationWitness ==
    /\ pc = "done"
    /\ markdown = Join(BoldItemDoc)
    /\ PdfKinds = <<"paragraph", "bullet", "paragraph">>
    /\ DocxKinds = <<"bullet", "bullet", "paragraph">>

====
